---- MODULE Spec2Model ----
(***************************************************************************)
(* Robin Hood open-addressing hash map of src/src/lib.rs (HashMap<K,V,H>). *)
(* Every public operation (insert, get, remove) is one atomic step; the    *)
(* private helpers find_elem and resize are operators the steps call.      *)
(***************************************************************************)
EXTENDS Integers, Sequences, FiniteSets, TLC

\* ---------------------------------------------------------------- bounds
NKeys == 3          \* keys are 1..NKeys
NValues == 2        \* values are 1..NValues
HashBound == 4      \* the hasher returns a value in 0..HashBound-1
MaxInitCap == 3     \* with_capacity is called with 1..MaxInitCap
MaxCap == 8         \* an insert that would grow the table past MaxCap is not taken
CollideKeys == 257  \* the keys of the colliding workload are 1..CollideKeys
CollideCap == 512   \* with_capacity of the colliding workload
LoopChunk == 32     \* rounds of a walk evaluated in one nesting

\* ------------------------------------------------------ program constants
RESIZE_FACTOR == 2
\* RESIZE_THRESHOLD is the f64 0.8; (capacity as f64 * 0.8) as usize is
\* floor(capacity * 4 / 5) for every capacity of the model.
RESIZE_THRESHOLD_NUM == 4
RESIZE_THRESHOLD_DEN == 5
\* The largest value of Elem::psl and of find_elem's psl, both u8.
PSL_MAX == 255

Keys == 1..NKeys
Values == 1..NValues
Hashes == 0..(HashBound - 1)

\* Option<Elem<K,V>>: None is the record with key 0, Some(elem) has key >= 1.
None == [key |-> 0, value |-> 0, psl |-> 0]
Elem(k, v, p) == [key |-> k, value |-> v, psl |-> p]
IsSome(slot) == slot.key # 0

\* Option<V> returned by get: 0 is None, v >= 1 is Some(v).
NoValue == 0

VARIABLES
    buffer,     \* self.buffer: function 0..n-1 -> slot
    capacity,   \* self.capacity
    len,        \* self.len
    hasher,     \* self.hasher, a fixed pure function Keys -> Hashes
    status,     \* "ok", or "panic" once an operation has panicked
    ret,        \* value returned by the last call (NoValue for () and for None)
    last,       \* the last call: its name, its key, whether a slot held the key,
                \* whether it resized, whether its psl arithmetic overflowed
    expect,     \* the caller's view: key -> last value inserted and not removed, or NoValue
    hist,       \* "fresh": only inserts of new keys so far; "inserts": only inserts; "any"
    initCap     \* the capacity given to with_capacity

vars == <<buffer, capacity, len, hasher, status, ret, last, expect, hist, initCap>>

\* ------------------------------------------------------------- helpers
EmptyBuffer(cap) == [i \in 0..(cap - 1) |-> None]

BufLen(buf) == Cardinality(DOMAIN buf)

Holds(buf, key) == \E i \in DOMAIN buf : buf[i].key = key

Occupied(buf) == {i \in DOMAIN buf : IsSome(buf[i])}

Max(a, b) == IF a >= b THEN a ELSE b

\* with_capacity(capacity, hasher)
with_capacity(cap) == [buffer |-> EmptyBuffer(cap), capacity |-> cap, len |-> 0]

\* x += 1 on a u8 that holds PSL_MAX: a build with overflow checks (checked)
\* panics there, a build without them wraps to 0.
psl_add(psl) == (psl + 1) % (PSL_MAX + 1)

\* find_elem's loop from index with running distance psl, for up to n more
\* rounds.  steps counts the rounds done, overflow tells whether psl += 1
\* has met PSL_MAX; done tells whether the loop has ended, by a panic or not.
RECURSIVE find_elem_rounds(_, _, _, _, _, _, _, _, _)
find_elem_rounds(buf, cap, key, index, psl, steps, overflow, checked, n) ==
    IF \/ ~IsSome(buf[index])
       \/ psl > buf[index].psl
       \/ buf[index].key = key
    THEN [index |-> index, psl |-> psl, steps |-> steps, overflow |-> overflow,
          done |-> TRUE, panic |-> FALSE]
    ELSE IF checked /\ psl = PSL_MAX
    THEN [index |-> index, psl |-> psl, steps |-> steps, overflow |-> TRUE,
          done |-> TRUE, panic |-> TRUE]
    ELSE IF n = 0
    THEN [index |-> index, psl |-> psl, steps |-> steps, overflow |-> overflow,
          done |-> FALSE, panic |-> FALSE]
    ELSE find_elem_rounds(buf, cap, key, (index + 1) % cap, psl_add(psl),
                          steps + 1, overflow \/ psl = PSL_MAX, checked, n - 1)

\* The loop from s until it ends, taken LoopChunk rounds at a time so that
\* a long walk does not nest its evaluation as deep as it is long.
RECURSIVE find_elem_loop(_, _, _, _, _)
find_elem_loop(buf, cap, key, s, checked) ==
    IF s.done THEN s
    ELSE find_elem_loop(buf, cap, key,
                        find_elem_rounds(buf, cap, key, s.index, s.psl, s.steps,
                                         s.overflow, checked, LoopChunk),
                        checked)

\* find_elem's loop entered at index with running distance psl.
find_elem_walk(buf, cap, key, index, psl, checked) ==
    find_elem_loop(buf, cap, key,
                   find_elem_rounds(buf, cap, key, index, psl, 0, FALSE,
                                    checked, LoopChunk),
                   checked)

\* find_elem: hash % capacity panics when capacity is 0.
find_elem_call(buf, cap, key, checked) ==
    IF cap = 0
    THEN [index |-> 0, steps |-> 0, panic |-> TRUE, overflow |-> FALSE]
    ELSE find_elem_walk(buf, cap, key, hasher[key] % cap, 0, checked)

\* The index find_elem returns when it returns.
find_elem(buf, cap, key) == find_elem_call(buf, cap, key, FALSE).index

\* resize: the loop over org_buffer in slot order, from slot i on; n is
\* self.len.  steps is the longest find_elem walk of the loop.
RECURSIVE resize_loop(_, _, _, _, _, _)
RECURSIVE resize_place(_, _, _, _, _, _, _)
resize_loop(org, i, buf, cap, n, checked) ==
    IF i >= BufLen(org)
    THEN [buffer |-> buf, capacity |-> cap, len |-> n,
          panic |-> FALSE, overflow |-> FALSE, steps |-> 0]
    ELSE IF ~IsSome(org[i]) THEN resize_loop(org, i + 1, buf, cap, n, checked)
    ELSE resize_place(org, i, buf, cap, n, checked,
                      find_elem_call(buf, cap, org[i].key, checked))

\* The body of resize's loop for the element of slot i, f being what
\* find_elem gave for its key.
resize_place(org, i, buf, cap, n, checked, f) ==
    IF f.panic
    THEN [buffer |-> buf, capacity |-> cap, len |-> n,
          panic |-> TRUE, overflow |-> f.overflow, steps |-> f.steps]
    ELSE [resize_loop(org, i + 1, [buf EXCEPT ![f.index] = org[i]],
                      cap, n + 1, checked)
             EXCEPT !.overflow = @ \/ f.overflow,
                    !.steps = Max(@, f.steps)]

\* resize's first assignment written with += for *=.
resize_capacity_added(cap) == cap + RESIZE_FACTOR

\* self.capacity *= Self::RESIZE_FACTOR
resize_capacity(cap) == cap * RESIZE_FACTOR

resize_call(buf, cap, checked) ==
    resize_loop(buf, 0, EmptyBuffer(resize_capacity(cap)), resize_capacity(cap),
                0, checked)

\* The table resize leaves when it returns.
resize(buf, cap) == resize_call(buf, cap, FALSE)

\* The test of insert's first line.
resize_threshold(cap) == (cap * RESIZE_THRESHOLD_NUM) \div RESIZE_THRESHOLD_DEN

\* The resize test read as a ratio: len / capacity >= 0.8.
needs_resize_ratio(n, cap) == RESIZE_THRESHOLD_DEN * n >= RESIZE_THRESHOLD_NUM * cap

\* The resize test written with > for >=.
needs_resize_strict(n, cap) == n > resize_threshold(cap)

\* self.len >= (self.capacity as f64 * Self::RESIZE_THRESHOLD) as usize
needs_resize(n, cap) == n >= resize_threshold(cap)

\* insert's while-let loop with the carried element new at slot index, for
\* up to n more rounds.  added is what the call adds to len, steps counts
\* the rounds done, overflow tells whether new.psl += 1 has met PSL_MAX;
\* done tells whether the loop has ended, by a panic or not.
RECURSIVE insert_rounds(_, _, _, _, _, _, _, _)
insert_rounds(buf, cap, new, index, steps, overflow, checked, n) ==
    IF ~IsSome(buf[index])
    THEN [buffer |-> [buf EXCEPT ![index] = new], new |-> new, index |-> index,
          added |-> 1, steps |-> steps, overflow |-> overflow,
          done |-> TRUE, panic |-> FALSE]
    ELSE IF buf[index].key = new.key
    THEN [buffer |-> [buf EXCEPT ![index].value = new.value], new |-> new,
          index |-> index, added |-> 0, steps |-> steps, overflow |-> overflow,
          done |-> TRUE, panic |-> FALSE]
    ELSE IF n = 0
    THEN [buffer |-> buf, new |-> new, index |-> index,
          added |-> 0, steps |-> steps, overflow |-> overflow,
          done |-> FALSE, panic |-> FALSE]
    ELSE LET swap == new.psl > buf[index].psl
             carried == IF swap THEN buf[index] ELSE new
             buf2 == IF swap THEN [buf EXCEPT ![index] = new] ELSE buf
         IN IF checked /\ carried.psl = PSL_MAX
            THEN [buffer |-> buf2, new |-> carried, index |-> index,
                  added |-> 0, steps |-> steps, overflow |-> TRUE,
                  done |-> TRUE, panic |-> TRUE]
            ELSE insert_rounds(buf2, cap, [carried EXCEPT !.psl = psl_add(@)],
                               (index + 1) % cap, steps + 1,
                               overflow \/ carried.psl = PSL_MAX, checked, n - 1)

\* The loop from s until it ends, taken LoopChunk rounds at a time.
RECURSIVE insert_loop(_, _, _)
insert_loop(cap, s, checked) ==
    IF s.done THEN s
    ELSE insert_loop(cap,
                     insert_rounds(s.buffer, cap, s.new, s.index, s.steps,
                                   s.overflow, checked, LoopChunk),
                     checked)

\* insert's while-let loop entered with the element new at slot index.
insert_walk(buf, cap, new, index, checked) ==
    insert_loop(cap,
                insert_rounds(buf, cap, new, index, 0, FALSE, checked, LoopChunk),
                checked)

\* The table insert leaves: t is the table after the resize, w what the
\* walk gave.
insert_result(t, w) ==
    [buffer |-> w.buffer, capacity |-> t.capacity,
     len |-> t.len + w.added, panic |-> w.panic,
     overflow |-> t.overflow \/ w.overflow,
     steps |-> Max(t.steps, w.steps)]

\* insert after its resize test, on the table t: hash % capacity (a panic
\* when capacity is 0), then the walk.
insert_place(t, key, value, checked) ==
    IF t.panic THEN t
    ELSE IF t.capacity = 0 THEN [t EXCEPT !.panic = TRUE]
    ELSE insert_result(t, insert_walk(t.buffer, t.capacity, Elem(key, value, 0),
                                      hasher[key] % t.capacity, checked))

\* insert as a function of the table: resize if due, then place.
insert_table(buf, cap, n, key, value, checked) ==
    insert_place(IF needs_resize(n, cap) THEN resize_call(buf, cap, checked)
                 ELSE [buffer |-> buf, capacity |-> cap, len |-> n,
                       panic |-> FALSE, overflow |-> FALSE, steps |-> 0],
                 key, value, checked)

\* get's match on the slot find_elem returned.
value_at(buf, index, key) ==
    IF IsSome(buf[index]) /\ buf[index].key = key THEN buf[index].value
    ELSE NoValue

\* The value get returns when it returns.
get_value(buf, cap, key) == value_at(buf, find_elem(buf, cap, key), key)

\* get that takes the value out of the slot instead of cloning it.
get_table_taking(buf, cap, n, key, checked) ==
    LET f == find_elem_call(buf, cap, key, checked)
    IN [buffer |-> IF ~f.panic /\ IsSome(buf[f.index]) /\ buf[f.index].key = key
                   THEN [buf EXCEPT ![f.index] = None] ELSE buf,
        capacity |-> cap, len |-> n,
        value |-> IF f.panic THEN NoValue ELSE value_at(buf, f.index, key),
        panic |-> f.panic, overflow |-> f.overflow, steps |-> f.steps]

\* What get leaves and returns, f being what find_elem gave: find_elem
\* borrows self mutably and writes nothing, the match clones the value.
get_result(buf, cap, n, key, f) ==
    [buffer |-> buf, capacity |-> cap, len |-> n,
     value |-> IF f.panic THEN NoValue ELSE value_at(buf, f.index, key),
     panic |-> f.panic, overflow |-> f.overflow, steps |-> f.steps]

\* get as a function of the table.
get_table(buf, cap, n, key, checked) ==
    get_result(buf, cap, n, key, find_elem_call(buf, cap, key, checked))

\* remove's backward-shift loop from index on; steps counts its rounds.
\* buffer[index - 1] with index = 0 underflows (debug build) or indexes out
\* of bounds (release build): both panic, after elem.psl -= 1 has been done.
RECURSIVE remove_shift(_, _, _)
remove_shift(buf, cap, index) ==
    IF ~IsSome(buf[index]) \/ buf[index].psl = 0
    THEN [buffer |-> buf, panic |-> FALSE, steps |-> 0]
    ELSE LET dec == [buf EXCEPT ![index].psl = @ - 1]
         IN IF index = 0
            THEN [buffer |-> dec, panic |-> TRUE, steps |-> 0]
            ELSE LET r == remove_shift([dec EXCEPT ![index] = dec[index - 1],
                                                   ![index - 1] = None],
                                       cap, (index + 1) % cap)
                 IN [r EXCEPT !.steps = @ + 1]

\* remove without the key test on the slot find_elem returned.
remove_table_any_key(buf, cap, n, key, checked) ==
    LET f == find_elem_call(buf, cap, key, checked)
    IN IF ~f.panic /\ IsSome(buf[f.index])
       THEN LET s == remove_shift([buf EXCEPT ![f.index] = None], cap,
                                  (f.index + 1) % cap)
            IN [buffer |-> s.buffer, len |-> n, panic |-> s.panic,
                overflow |-> f.overflow, steps |-> Max(f.steps, s.steps)]
       ELSE [buffer |-> buf, len |-> n, panic |-> f.panic,
             overflow |-> f.overflow, steps |-> f.steps]

\* The table remove leaves after its shift loop s.
remove_result(n, f, s) ==
    [buffer |-> s.buffer, len |-> n, panic |-> s.panic,
     overflow |-> f.overflow, steps |-> Max(f.steps, s.steps)]

\* remove's match on the slot find_elem returned (f).
remove_at(buf, cap, n, key, f) ==
    IF ~f.panic /\ IsSome(buf[f.index]) /\ buf[f.index].key = key
    THEN remove_result(n, f, remove_shift([buf EXCEPT ![f.index] = None], cap,
                                          (f.index + 1) % cap))
    ELSE [buffer |-> buf, len |-> n, panic |-> f.panic,
          overflow |-> f.overflow, steps |-> f.steps]

\* remove as a function of the table.
remove_table(buf, cap, n, key, checked) ==
    remove_at(buf, cap, n, key, find_elem_call(buf, cap, key, checked))

\* The outcomes of a call over the builds: a call whose psl arithmetic
\* overflows ends one way without overflow checks (unchecked) and another
\* way with them (checked); any other call ends the same way in both.
Outcomes(unchecked, checked) ==
    IF unchecked.overflow THEN {unchecked, checked} ELSE {unchecked}

\* ------------------------------------------------------------- the steps
\* The table right after with_capacity(cap, h).
Construct(cap, h) ==
    /\ initCap = cap
    /\ hasher = h
    /\ buffer = with_capacity(cap).buffer
    /\ capacity = with_capacity(cap).capacity
    /\ len = with_capacity(cap).len
    /\ status = "ok"
    /\ ret = NoValue
    /\ last = [op |-> "new", key |-> 0, present |-> FALSE, resized |-> FALSE,
               overflow |-> FALSE]
    /\ expect = [k \in DOMAIN h |-> NoValue]
    /\ hist = "fresh"

\* Keys are compared only for equality, so they are named in the order of
\* their hashes; every order of calls on them is still taken.
Hashers == {h \in [Keys -> Hashes] : \A j, k \in Keys : j <= k => h[j] <= h[k]}

\* with_capacity(initCap, hasher) with a capacity the constructor's contract
\* allows; new(hasher) is with_capacity(DEFAULT_SIZE, hasher).
Init == \E cap \in 1..MaxInitCap, h \in Hashers : Construct(cap, h)

insert(key, value) ==
    /\ status = "ok"
    /\ needs_resize(len, capacity) => resize_capacity(capacity) <= MaxCap
    /\ \E t \in Outcomes(insert_table(buffer, capacity, len, key, value, FALSE),
                          insert_table(buffer, capacity, len, key, value, TRUE)) :
             /\ buffer' = t.buffer
             /\ capacity' = t.capacity
             /\ len' = t.len
             /\ status' = IF t.panic THEN "panic" ELSE "ok"
             /\ last' = [op |-> "insert", key |-> key,
                         present |-> Holds(buffer, key),
                         resized |-> needs_resize(len, capacity),
                         overflow |-> t.overflow]
    /\ ret' = NoValue
    /\ expect' = [expect EXCEPT ![key] = value]
    /\ hist' = IF hist = "fresh" /\ expect[key] = NoValue THEN "fresh"
               ELSE IF hist = "any" THEN "any" ELSE "inserts"
    /\ UNCHANGED <<hasher, initCap>>

get(key) ==
    /\ status = "ok"
    /\ \E t \in Outcomes(get_table(buffer, capacity, len, key, FALSE),
                          get_table(buffer, capacity, len, key, TRUE)) :
             /\ buffer' = t.buffer
             /\ capacity' = t.capacity
             /\ len' = t.len
             /\ ret' = t.value
             /\ status' = IF t.panic THEN "panic" ELSE "ok"
             /\ last' = [op |-> "get", key |-> key,
                         present |-> Holds(buffer, key), resized |-> FALSE,
                         overflow |-> t.overflow]
    /\ UNCHANGED <<hasher, expect, hist, initCap>>

remove(key) ==
    /\ status = "ok"
    /\ \E t \in Outcomes(remove_table(buffer, capacity, len, key, FALSE),
                          remove_table(buffer, capacity, len, key, TRUE)) :
             /\ buffer' = t.buffer
             /\ len' = t.len
             /\ status' = IF t.panic THEN "panic" ELSE "ok"
             /\ last' = [op |-> "remove", key |-> key,
                         present |-> Holds(buffer, key), resized |-> FALSE,
                         overflow |-> t.overflow]
    /\ ret' = NoValue
    /\ expect' = [expect EXCEPT ![key] = NoValue]
    /\ hist' = "any"
    /\ UNCHANGED <<capacity, hasher, initCap>>

Next ==
    \/ \E key \in Keys, value \in Values : insert(key, value)
    \/ \E key \in Keys : get(key)
    \/ \E key \in Keys : remove(key)

Spec == Init /\ [][Next]_vars

\* ------------------------------------------------------------ the claims
Ideal(key) == hasher[key] % capacity

Inserted == {k \in DOMAIN expect : expect[k] # NoValue}

SlotsHolding(buf, key) == {i \in DOMAIN buf : buf[i].key = key}

Contents(buf) == {<<buf[i].key, buf[i].value>> : i \in Occupied(buf)}

\* C1: every occupied slot i holding key k stores
\* psl = (i - hash(k) mod capacity) mod capacity.
PSLInvariant ==
    status = "ok" =>
        \A i \in Occupied(buffer) :
            buffer[i].psl = (i - Ideal(buffer[i].key)) % capacity

\* C2: after inserts only, get(k) returns the value of the most recent
\* insert(k, v) for every inserted key and None for every other key.
RoundTrip ==
    hist # "any" => \A k \in Keys : get_value(buffer, capacity, k) = expect[k]

\* C3: when an insert resizes, the resize step keeps the set of (key, value)
\* pairs and every such key is retrievable afterwards; from an empty table of
\* capacity c, inserting c distinct keys leaves all c keys retrievable.
ResizePreservesContents ==
    /\ (status = "ok" /\ needs_resize(len, capacity)) =>
          LET t == resize(buffer, capacity)
          IN /\ Contents(t.buffer) = Contents(buffer)
             /\ Cardinality(Occupied(t.buffer)) = Cardinality(Occupied(buffer))
             /\ \A i \in Occupied(buffer) :
                   get_value(t.buffer, t.capacity, buffer[i].key) = buffer[i].value
    /\ (hist = "fresh" /\ Cardinality(Inserted) = initCap) =>
          \A k \in Inserted : get_value(buffer, capacity, k) = expect[k]

\* C4: after remove(k) returns, get(k) returns None and no slot holds k.
RemovalCompleteness ==
    (last.op = "remove" /\ status = "ok") =>
        /\ get_value(buffer, capacity, last.key) = NoValue
        /\ ~Holds(buffer, last.key)

\* C5: len equals the number of occupied slots, which equals the number of
\* distinct keys inserted and not removed since.
LengthAccounting ==
    /\ len = Cardinality(Occupied(buffer))
    /\ len = Cardinality(Inserted)

\* C6: remove(k) of a key some slot holds decreases len by exactly one.
RemoveDecrementsLen ==
    [][(last'.op = "remove" /\ last'.present) => len' = len - 1]_vars

Overwrite ==
    [][(last'.op = "insert" /\ last'.present) =>
          /\ len' = len
          /\ get_value(buffer', capacity', last'.key) = expect'[last'.key]
          /\ Cardinality(SlotsHolding(buffer', last'.key)) = 1]_vars

\* C9: no two occupied slots hold equal keys.
KeyUniqueness ==
    \A i, j \in Occupied(buffer) : buffer[i].key = buffer[j].key => i = j

\* C10: capacity is the number of slots; get and remove keep capacity and an
\* insert keeps it or doubles it; from an empty table of capacity c,
\* inserting c distinct keys ends with capacity = 2c = slots and len = c.
CapacityInvariant ==
    /\ [](capacity = BufLen(buffer))
    /\ [][/\ last'.op \in {"get", "remove"} => capacity' = capacity
          /\ last'.op = "insert" =>
                capacity' = IF last'.resized THEN 2 * capacity ELSE capacity]_vars
    /\ []((hist = "fresh" /\ Cardinality(Inserted) = initCap) =>
             /\ capacity = 2 * initCap
             /\ BufLen(buffer) = 2 * initCap
             /\ len = initCap)

\* The last of c distinct inserts into an empty table of capacity c >= 2
\* has just returned, one of them having doubled the capacity.
CapacityWitness ==
    /\ hist = "fresh"
    /\ last.op = "insert"
    /\ initCap > 1
    /\ Cardinality(Inserted) = initCap
    /\ capacity = 2 * initCap

\* C11: a call to get, of a present or an absent key, leaves the slot array
\* (every key, value and psl), len and capacity as they were.
GetNeverMutates ==
    [][last'.op = "get" =>
          /\ buffer' = buffer
          /\ len' = len
          /\ capacity' = capacity]_vars

\* A get has just returned the value of a key in a table of several entries.
GetWitness ==
    /\ last.op = "get"
    /\ last.present
    /\ ret # NoValue
    /\ Cardinality(Occupied(buffer)) > 1

\* C13: get(k) returns v if and only if some occupied slot holds key k with
\* value v; when the walk stops early, no slot holds k.
LookupSoundness ==
    status = "ok" =>
        \A k \in Keys :
            /\ \A v \in Values :
                  get_value(buffer, capacity, k) = v <=>
                      \E i \in Occupied(buffer) :
                          buffer[i].key = k /\ buffer[i].value = v
            /\ get_value(buffer, capacity, k) = NoValue => ~Holds(buffer, k)

\* The length of the maximal run of occupied slots with psl > 0 from slot j
\* on, n of its slots counted so far.
RECURSIVE ShiftRun(_, _, _, _)
ShiftRun(buf, cap, j, n) ==
    IF n = cap - 1 \/ ~IsSome(buf[j]) \/ buf[j].psl = 0 THEN n
    ELSE ShiftRun(buf, cap, (j + 1) % cap, n + 1)

\* The slot array the claimed backward shift leaves after the entry of
\* slot i is removed.
ShiftedBack(buf, cap, i) ==
    LET r == ShiftRun(buf, cap, (i + 1) % cap, 0)
    IN [j \in DOMAIN buf |->
          LET d == (j - i) % cap
          IN IF d < r THEN [buf[(j + 1) % cap] EXCEPT !.psl = @ - 1]
             ELSE IF d = r THEN None
             ELSE buf[j]]

\* C14: when remove(k) finds k at index i, every entry of the run of
\* displaced entries after i moves one slot back with psl one less, the
\* run's last old slot is empty and every other slot is unchanged.
BackwardShift ==
    [][(/\ last'.op = "remove"
        /\ buffer[find_elem(buffer, capacity, last'.key)].key = last'.key) =>
          /\ status' = "ok"
          /\ buffer' = ShiftedBack(buffer, capacity,
                                   find_elem(buffer, capacity, last'.key))]_vars

\* C15: remove(k) keeps every other present key in exactly one slot and
\* get of it returns the same value as before.
RemovePreservesOthers ==
    [][last'.op = "remove" =>
          \A k2 \in Keys \ {last'.key} :
              Holds(buffer, k2) =>
                  /\ Cardinality(SlotsHolding(buffer', k2)) = 1
                  /\ get_value(buffer', capacity', k2)
                        = get_value(buffer, capacity, k2)]_vars

\* C19: no operation faults on its index arithmetic: no index leaves
\* 0..capacity-1 and no index computation goes below 0.
NoIndexFault == status # "panic"

\* C16 as stated: an insert resizes before placing exactly when
\* len / capacity >= 0.8, and that test agrees with len >= floor(capacity * 0.8)
\* for every capacity >= 1 and every len.
ResizeTriggerRatio ==
    [][last'.op = "insert" =>
          /\ (capacity' # capacity) <=> needs_resize_ratio(len, capacity)
          /\ needs_resize_ratio(len, capacity) <=>
                 len >= (capacity * RESIZE_THRESHOLD_NUM) \div RESIZE_THRESHOLD_DEN]_vars

\* C16 amended: an insert doubles the capacity before placing exactly when
\* len >= floor(capacity * 0.8); len / capacity >= 0.8 is sufficient for
\* that and not necessary.
ResizeTrigger ==
    [][last'.op = "insert" =>
          /\ (capacity' # capacity) <=>
                 len >= (capacity * RESIZE_THRESHOLD_NUM) \div RESIZE_THRESHOLD_DEN
          /\ capacity' # capacity => capacity' = RESIZE_FACTOR * capacity
          /\ needs_resize_ratio(len, capacity) => capacity' # capacity]_vars

\* The first insert into a table of capacity 1 has resized it at len 0.
ResizeTriggerWitness ==
    /\ last.op = "insert" /\ last.resized
    /\ initCap = 1 /\ capacity = RESIZE_FACTOR /\ len = 1 /\ hist = "fresh"

\* C17: between operations len < capacity and some slot is empty, and every
\* walk of insert (the re-placement loop of its resize included), get and
\* remove passes at most capacity slots.
Termination ==
    status = "ok" =>
        /\ len < capacity
        /\ \E i \in DOMAIN buffer : ~IsSome(buffer[i])
        /\ \A k \in Keys :
              /\ get_table(buffer, capacity, len, k, FALSE).steps <= capacity
              /\ remove_table(buffer, capacity, len, k, FALSE).steps <= capacity
              /\ \A v \in Values :
                    LET t == insert_table(buffer, capacity, len, k, v, FALSE)
                    IN t.steps <= t.capacity

\* A table filled up to its threshold in which a lookup passes several slots.
TerminationWitness ==
    /\ status = "ok" /\ last.op = "insert"
    /\ len = resize_threshold(capacity)
    /\ Cardinality(Occupied(buffer)) = len
    /\ \E k \in Keys : get_table(buffer, capacity, len, k, FALSE).steps >= 2

\* The entries of org from slot i on, in slot order, each put into buf by
\* insert's displacement walk with its psl restarted at 0.
RECURSIVE Rehash(_, _, _, _, _)
Rehash(org, i, buf, cap, n) ==
    IF i >= BufLen(org) THEN [buffer |-> buf, capacity |-> cap, len |-> n]
    ELSE IF ~IsSome(org[i]) THEN Rehash(org, i + 1, buf, cap, n)
    ELSE LET w == insert_walk(buf, cap, Elem(org[i].key, org[i].value, 0),
                              hasher[org[i].key] % cap, FALSE)
         IN Rehash(org, i + 1, w.buffer, cap, n + w.added)

\* C18: whenever an insert is about to resize, the table resize produces
\* (slots with key, value and psl; len; capacity) is the table obtained by
\* inserting every old entry in slot order into an empty table of twice
\* the capacity.
ResizeIsRehash ==
    (status = "ok" /\ needs_resize(len, capacity)) =>
        LET r == resize(buffer, capacity)
            e == Rehash(buffer, 0, EmptyBuffer(RESIZE_FACTOR * capacity),
                        RESIZE_FACTOR * capacity, 0)
        IN /\ r.buffer = e.buffer
           /\ r.len = e.len
           /\ r.capacity = e.capacity

\* with_capacity(initCap, hasher) with any capacity the signature takes:
\* capacity is a usize and with_capacity tests nothing.
InitAnyCapacity == \E cap \in 0..MaxInitCap, h \in Hashers : Construct(cap, h)

SpecAnyCapacity == InitAnyCapacity /\ [][Next]_vars

\* C12: a table of capacity 0 exists only as the error state its
\* construction ended in, so no insert, get or remove runs on capacity 0.
ZeroCapacityGuarded ==
    capacity = 0 => (status = "panic" /\ last.op = "new")

\* A hash function that maps every key to bucket 0, on enough keys for a
\* probe distance of PSL_MAX + 1, in a table that holds them below its
\* resize threshold.
CollideHasher == [k \in 1..CollideKeys |-> 0]

InitCollide == Construct(CollideCap, CollideHasher)

\* The calls of a program that fills the table key after key, looks up the
\* key it has just inserted and removes a key it has not inserted.
NextCollide ==
    \/ \E key \in DOMAIN hasher :
          /\ key = Cardinality(Inserted) + 1
          /\ insert(key, 1)
    \/ \E key \in DOMAIN hasher :
          /\ key = Cardinality(Inserted)
          /\ get(key)
    \/ \E key \in DOMAIN hasher :
          /\ key = CollideKeys
          /\ expect[key] = NoValue
          /\ remove(key)

SpecCollide == InitCollide /\ [][NextCollide]_vars

\* C20: no call increments a psl (an entry's stored psl or the running
\* distance of a walk) that already holds PSL_MAX.
PslFits == ~last.overflow

====
